---- MODULE Spec2Model ----
(***************************************************************************)
(* Option roll-up pipeline of the Oracle audit report builder:             *)
(*   Evidence -> Database Details -> Virtual Devices -> Hosts -> Clusters  *)
(* (driver.py and builders/*.py).  A table (pandas DataFrame) is a record  *)
(* [cols, rows]: cols is the header, rows a sequence of functions from     *)
(* column name to cell.  Inventory fields that the builders only carry     *)
(* through unchanged (edition, version, ...) are not represented.          *)
(***************************************************************************)
EXTENDS Integers, Sequences, FiniteSets, TLC

VARIABLES
    pc,                 \* position of driver.py
    oracle_dbs,         \* "Oracle Databases Installed.json" (record list)
    options_evidence,   \* "Options Usage Evidence.json"     (record list)
    virtual_devices,    \* "Virtual Devices.json": [has_physical_host, rows]
    physical_hosts,     \* "Physical Hosts.json": [tier, rows, declared]
    virtual_clusters,   \* "Virtualization Clusters.json": [present, rows]
    df_db,              \* Database Details table
    df_vm,              \* Virtual Devices table
    df_hosts,           \* Hosts table
    df_clusters,        \* Clusters table
    saved               \* number of times the workbook was written

vars == <<pc, oracle_dbs, options_evidence, virtual_devices, physical_hosts,
          virtual_clusters, df_db, df_vm, df_hosts, df_clusters, saved>>

\* ------------------------------------------------------------------------
\* Bounds of the model
\* ------------------------------------------------------------------------
MaxEvidence == 2     \* records in the evidence file (database-level runs)
MaxVms == 2          \* virtual machines (topology-level runs)

\* ------------------------------------------------------------------------
\* Values
\* ------------------------------------------------------------------------
NaN == "NaN"         \* pandas missing value in an object column
None == "None"       \* Python None
NaNum == -1          \* pandas NaN in a numeric column (real values are >= 0)

Range(s) == {s[i] : i \in DOMAIN s}
SeqsUpTo(S, n) == UNION {[1..k -> S] : k \in 0..n}

RECURSIVE KeepIdx(_, _, _)
\* the subsequence of s at the indices in I, from index i on
KeepIdx(s, I, i) ==
    IF i > Len(s) THEN <<>>
    ELSE (IF i \in I THEN <<s[i]>> ELSE <<>>) \o KeepIdx(s, I, i + 1)

RECURSIVE Flatten(_)
Flatten(ss) == IF ss = <<>> THEN <<>> ELSE Head(ss) \o Flatten(Tail(ss))

\* str.lower() on the strings the inputs are drawn from
str_lower(s) ==
    CASE s = "VM1 " -> "vm1 "
      [] s = "DB1" -> "db1"
      [] s = "Partitioning" -> "partitioning"
      [] s = "Partitioning " -> "partitioning "
      [] s = "Tuning" -> "tuning"
      [] s = "USED" -> "used"
      [] s = " Used " -> " used "
      [] s = "Verify" -> "verify"
      [] s = "VMWare" -> "vmware"
      [] OTHER -> s

\* str.strip() on the strings the inputs are drawn from
str_strip(s) ==
    CASE s = "vm1 " -> "vm1"
      [] s = "VM1 " -> "VM1"
      [] s = "partitioning " -> "partitioning"
      [] s = "Partitioning " -> "Partitioning"
      [] s = " used " -> "used"
      [] s = " Used " -> "Used"
      [] OTHER -> s

\* Python's order of the column names (sorted() compares code points)
ColumnOrder == <<
    "admission_control_enabled", "capped", "cluster_name", "config_status",
    "cores_per_cpu", "cpu_model", "cpu_speed", "cpu_threads", "data_source",
    "database_name", "dbid", "device_manufacturer", "device_model",
    "device_name", "drs_enabled", "esx_version", "failover_level",
    "full_version", "goldengate_enabled", "ha_enabled", "hyper_threading",
    "instance_status", "instance_uuid", "lscpu_cores_per_socket",
    "lscpu_hypervisor", "lscpu_threads_per_core", "lscpu_total_threads",
    "manufacturer", "model", "model_x", "model_y", "num_vmotions",
    "number_of_hosts", "number_of_virtual_cores",
    "number_of_virtual_processors", "number_of_virtual_threads",
    "number_of_vms", "operating_system_release", "operating_system_type",
    "oracle_core_factor", "overall_status", "partitioning",
    "physical_device", "product_edition", "product_version", "rac_hosts",
    "rac_instances", "rac_members_count", "raw_data", "siblings",
    "sizing_note", "source", "total_number_of_cores",
    "total_number_of_processors", "total_number_of_threads", "tuning",
    "virtual_device", "virtualization_type", "visdk_server" >>

\* sorted(S) for a set S of column names
SortedSet(S) == SelectSeq(ColumnOrder, LAMBDA c : c \in S)
\* sorted(cols) for a list of column names (a repeated name stays repeated)
sorted(cols) ==
    Flatten([k \in DOMAIN ColumnOrder |->
                SelectSeq(cols, LAMBDA c : c = ColumnOrder[k])])

\* [c for c in cols if c not in excluded]
Without(cols, excluded) == SelectSeq(cols, LAMBDA c : c \notin excluded)

\* argsort of integer keys, descending and stable (sort_values(ascending=False)
\* on a short column: equal keys keep their order, NaN sorts last)
ArgsortDesc(keys) ==
    [p \in DOMAIN keys |->
        CHOOSE i \in DOMAIN keys :
            Cardinality({j \in DOMAIN keys :
                \/ keys[j] > keys[i]
                \/ keys[j] = keys[i] /\ j < i}) + 1 = p]

\* DataFrame.sort_values(<key>, ascending=False)
sort_values_desc(rows, keys) ==
    [p \in DOMAIN rows |-> rows[ArgsortDesc(keys)[p]]]

\* DataFrame.drop_duplicates(subset=..., keep="first"); ks[i] is row i's subset
drop_duplicates(rows, ks) ==
    KeepIdx(rows, {i \in DOMAIN rows : \A j \in 1..(i - 1) : ks[j] # ks[i]}, 1)

\* dict.get(k, default)
dict_get(d, k, default) == IF k \in DOMAIN d THEN d[k] ELSE default

\* ------------------------------------------------------------------------
\* builders/db_details_tab.py
\* ------------------------------------------------------------------------
OPTION_PRIORITY ==
    ("used" :> 4) @@ ("historical" :> 3) @@ ("cloned" :> 2) @@
    ("verify" :> 1) @@ ("" :> 0) @@ (None :> 0)

OPTION_SYMBOL ==
    ("used" :> "+") @@ ("historical" :> "~") @@ ("cloned" :> "#") @@
    ("verify" :> "^") @@ ("" :> "") @@ (None :> "")

device_key(r) == str_strip(str_lower(r.device_name))
db_key(r) == str_strip(str_lower(r.database_name))
opt_key(r) == str_strip(str_lower(r.option_name))

\* df_opt["result"].str.lower().map(OPTION_PRIORITY): a missing key gives NaN
prio(r) == dict_get(OPTION_PRIORITY, str_lower(r.result), NaNum)

\* df_best["result"].str.lower().map(OPTION_SYMBOL)
symbol(r) == dict_get(OPTION_SYMBOL, str_lower(r.result), NaN)

\* the evidence rows left in file order
SortByPrio_unsorted(df_opt) == df_opt

\* the evidence rows ordered for the reduction
SortByPrio(df_opt) ==
    sort_values_desc(df_opt, [i \in DOMAIN df_opt |-> prio(df_opt[i])])

\* best result per (device, db, option)
df_best(df_opt) ==
    LET s == SortByPrio(df_opt)
    IN  drop_duplicates(s,
            [i \in DOMAIN s |-> <<device_key(s[i]), db_key(s[i]), opt_key(s[i])>>])

\* the option columns of the pivot (pivot sorts the column labels)
OptKeys(df_opt) == SortedSet({opt_key(df_opt[i]) : i \in DOMAIN df_opt})

\* a cell left as the merge produced it
fillna_skipped(v) == v

\* .fillna("") on one cell of an object column
fillna(v) == IF v \in { NaN, None } THEN "" ELSE v

\* one cell of pivot(index=[device_key, db_key], columns=opt_key, values=symbol)
MatrixCell(best, dk, bk, o) ==
    LET m == {i \in DOMAIN best :
                 device_key(best[i]) = dk /\ db_key(best[i]) = bk /\ opt_key(best[i]) = o}
    IN  IF m = {} THEN NaN ELSE symbol(best[CHOOSE i \in m : TRUE])

\* the index of the pivot: the (device_key, db_key) pairs of the evidence
MatrixKeys(best) == {<<device_key(best[i]), db_key(best[i])>> : i \in DOMAIN best}

\* df_opt[["device_key", "db_key", "dbid"]].drop_duplicates()
df_dbid(df_opt) ==
    LET t == [i \in DOMAIN df_opt |->
                <<device_key(df_opt[i]), db_key(df_opt[i]), df_opt[i].dbid>>]
    IN  drop_duplicates(t, t)

\* df_base.merge(df_dbid, on=["device_key", "db_key"], how="left")
MergeDbid(base, dbids) ==
    Flatten([i \in DOMAIN base |->
        LET m == SelectSeq(dbids, LAMBDA d :
                     d[1] = device_key(base[i]) /\ d[2] = db_key(base[i]))
        IN  IF m = <<>> THEN << base[i] @@ ("dbid" :> NaN) >>
            ELSE [j \in DOMAIN m |-> base[i] @@ ("dbid" :> m[j][3])]])

\* .merge(df_matrix, on=["device_key", "db_key"], how="left"): the option
\* cells of one base row, NaN where the pivot has no row for its keys
MergeMatrix(b, best, opts) ==
    [o \in Range(opts) |->
        IF <<device_key(b), db_key(b)>> \in MatrixKeys(best)
        THEN fillna(MatrixCell(best, device_key(b), db_key(b), o))
        ELSE NaN]

\* the merged table, keys dropped, NaN filled, virtual_device added
df_final(base, df_opt) ==
    LET best == df_best(df_opt)
        opts == OptKeys(df_opt)
        withid == MergeDbid(base, df_dbid(df_opt))
    IN  [i \in DOMAIN withid |->
            LET b == withid[i]
                cells == MergeMatrix(b, best, opts)
            IN  ("device_name" :> b.device_name) @@
                ("database_name" :> b.database_name) @@
                ("dbid" :> fillna(b.dbid)) @@
                ("virtual_device" :> b.device_name) @@
                [o \in Range(opts) |-> fillna(cells[o])]]

\* drop_duplicates(["device_name", "database_name"]) on the unsorted rows
DedupRows_unsorted(rows) ==
    drop_duplicates(rows,
        [i \in DOMAIN rows |-> <<rows[i]["device_name"], rows[i]["database_name"]>>])

\* df_final["dbid"].astype(bool), as a sort key
keep_flag(r) == IF r["dbid"] = "" THEN 0 ELSE 1

\* sort rows with a dbid first, then drop_duplicates(["device_name",
\* "database_name"], keep="first")
DedupRows(rows) ==
    LET s == sort_values_desc(rows, [i \in DOMAIN rows |-> keep_flag(rows[i])])
    IN  drop_duplicates(s, [i \in DOMAIN s |-> <<s[i]["device_name"], s[i]["database_name"]>>])

NoTable == [ok |-> FALSE, cols |-> <<>>, rows |-> <<>>]

\* build_db_details_df: an empty record list has no columns, so the first
\* column access raises KeyError
build_db_details_df(base, df_opt) ==
    IF base = <<>> \/ df_opt = <<>> THEN NoTable
    ELSE [ok |-> TRUE,
          cols |-> <<"device_name", "dbid", "database_name">> \o OptKeys(df_opt)
                   \o <<"virtual_device">>,
          rows |-> DedupRows(df_final(base, df_opt))]

\* ------------------------------------------------------------------------
\* builders/virtual_devices_tab.py
\* ------------------------------------------------------------------------
\* Python's order of the entity names (groupby sorts its keys)
NameOrder == << "", "DECLARED", "VM1 ", "c1", "c2", "h1", "h2",
               "vm1", "vm2", "vm3", "vm4" >>
SortedNames(S) == SelectSeq(NameOrder, LAMBDA n : n \in S)

VM_OPTION_PRIORITY == OPTION_PRIORITY

wanted == << "operating_system_release", "cpu_speed", "cpu_threads", "siblings",
             "hyper_threading", "device_model", "device_manufacturer",
             "lscpu_total_threads", "lscpu_cores_per_socket",
             "lscpu_threads_per_core", "lscpu_hypervisor" >>

\* truth value of a cell: "" is falsy, NaN (a float) and any other text truthy
truthy(v) == v # "" /\ v # None /\ v # "0"

\* _extract_vm_fields: raw_data is [kind, j]; kind "absent" is a falsy
\* raw_data, "dict" a mapping (or text that parses to one), "malformed" text
\* that neither json.loads nor ast.literal_eval can read, "list" text that
\* parses to something that is not a mapping
extract_vm_fields(r) ==
    LET r1 == r @@ [k \in Range(wanted) |-> ""]
        raw == r1["raw_data"]
        \* text that cannot be read gives j = {}, which is a mapping
        j == IF raw.kind = "dict" THEN raw.j ELSE [k \in {} |-> ""]
    IN  IF raw.kind \in { "dict", "malformed" }
        THEN [c \in DOMAIN r1 |->
                 IF c \in Range(wanted) /\ ~truthy(r1[c])
                 THEN dict_get(j, c, "") ELSE r1[c]]
        ELSE r1

\* df.rename(columns={...}) on a header
vm_rename(c) ==
    CASE c = "device_name" -> "virtual_device"
      [] c = "physical_host" -> "physical_device"
      [] c = "total_number_of_processors" -> "number_of_virtual_processors"
      [] c = "total_number_of_cores" -> "number_of_virtual_cores"
      [] c = "total_number_of_threads" -> "number_of_virtual_threads"
      [] OTHER -> c

core_db_cols == { "device_name", "dbid", "database_name", "product_edition",
                  "product_version", "full_version", "instance_status",
                  "goldengate_enabled", "source", "rac_hosts", "rac_instances",
                  "rac_members_count", "virtual_device" }

option_cols_db(db) == Without(db.cols, core_db_cols)

\* max(syms, key=...): the first element whose key is the greatest; keys[i]
\* is the key of syms[i]
py_max(syms, keys) ==
    syms[CHOOSE i \in DOMAIN syms :
            /\ \A j \in DOMAIN syms : keys[j] <= keys[i]
            /\ \A j \in 1..(i - 1) : keys[j] < keys[i]]

\* the aggregation lambda of the groupby: the symbols of one VM, one option
vm_agg(syms) ==
    IF SelectSeq(syms, LAMBDA x : x # NaN) # <<>>
    THEN py_max(syms, [i \in DOMAIN syms |-> dict_get(VM_OPTION_PRIORITY, syms[i], 0)])
    ELSE ""

\* the cells of column c in the rows of table rows whose column g is v
GroupCells(rows, g, v, c) ==
    LET m == SelectSeq(rows, LAMBDA r : r[g] = v)
    IN  [i \in DOMAIN m |-> m[i][c]]

vm_drop == { "cpu_threads", "device_type", "manufacturer", "model",
             "number_of_virtual_cores", "number_of_virtual_threads",
             "raw_data", "siblings" }

vm_id_block == << "physical_device", "virtual_device", "virtualization_type",
                  "capped", "device_model", "device_manufacturer",
                  "lscpu_hypervisor", "hyper_threading", "operating_system_type",
                  "operating_system_release", "cpu_model", "cpu_speed",
                  "lscpu_cores_per_socket", "lscpu_threads_per_core",
                  "lscpu_total_threads", "number_of_virtual_processors",
                  "oracle_core_factor" >>

\* the header of the inventory file: the fixed columns, then the backfill
\* attributes its records carry themselves
vm_input_cols(inv) ==
    << "device_name" >> \o
    (IF inv.has_physical_host THEN << "physical_host" >> ELSE <<>>) \o
    << "virtualization_type", "total_number_of_processors",
       "total_number_of_cores", "total_number_of_threads", "cpu_model", "raw_data" >> \o
    SelectSeq(wanted, LAMBDA k : \E i \in DOMAIN inv.rows : k \in DOMAIN inv.rows[i])

\* build_virtual_devices_df(virtual_devices_json, allowed_vms, df_db_details)
build_virtual_devices_df(inv, allowed_vms, db) ==
    LET filtered == SelectSeq(inv.rows, LAMBDA r : r["device_name"] \in allowed_vms)
        incols == vm_input_cols(inv)
        cols0 == [i \in DOMAIN incols |-> vm_rename(incols[i])]
        renamed == [i \in DOMAIN filtered |->
                      [c \in Range(cols0) |->
                          filtered[i][CHOOSE d \in Range(incols) : vm_rename(d) = c]]]
        ocols == option_cols_db(db)
        vms == {db.rows[i]["virtual_device"] : i \in DOMAIN db.rows}
        merged == [i \in DOMAIN renamed |->
                     renamed[i] @@
                     [c \in Range(ocols) |->
                         IF renamed[i]["virtual_device"] \in vms
                         THEN vm_agg(GroupCells(db.rows, "virtual_device",
                                                renamed[i]["virtual_device"], c))
                         ELSE NaN]]
        cols1 == cols0 \o ocols
        unpacked == [i \in DOMAIN merged |-> extract_vm_fields(merged[i])]
        \* apply() on a table without rows calls nothing and adds no column
        cols2 == IF merged = <<>> THEN cols1
                 ELSE cols1 \o Without(wanted, Range(cols1))
        cols3 == Without(cols2, vm_drop)
        id_block == SelectSeq(vm_id_block, LAMBDA c : c \in Range(cols3))
        option_block == sorted(Without(cols3, Range(id_block)))
        final == id_block \o option_block
    IN  [ok |-> TRUE,
         cols |-> final,
         rows |-> [i \in DOMAIN unpacked |->
                      [c \in Range(final) |-> fillna(unpacked[i][c])]]]

\* ------------------------------------------------------------------------
\* builders/hosts_tab.py
\* ------------------------------------------------------------------------
\* numbers in cells are written as decimal text; int() and str() on them
NumStr == << "0", "1", "2", "3", "4", "5", "6", "7", "8", "9", "10", "11",
             "12", "13", "14", "15", "16" >>
isdigit(v) == \E n \in DOMAIN NumStr : NumStr[n] = v
int(v) == (CHOOSE n \in DOMAIN NumStr : NumStr[n] = v) - 1
str(n) == NumStr[n + 1]

\* a dict literal as its (key, value) items in source order
SYM2PRIO_items == << <<"+", 4>>, <<"~", 3>>, <<"#", 2>>, <<"^", 1>>,
                     <<"", 0>>, <<None, 0>> >>

\* the dict built from items: a later item overwrites an earlier one
DictOf(items) ==
    [k \in {items[i][1] : i \in DOMAIN items} |->
        items[CHOOSE i \in DOMAIN items :
                 /\ items[i][1] = k
                 /\ \A j \in DOMAIN items : j > i => items[j][1] # k][2]]

\* dict.items() of the dict built from items: keys in first-insertion order
DictItems(items) ==
    LET ks == [i \in DOMAIN items |-> items[i][1]]
        firsts == drop_duplicates(ks, ks)
    IN  [i \in DOMAIN firsts |-> <<firsts[i], DictOf(items)[firsts[i]]>>]

\* {v: k for k, v in d.items()}, as items
Inverted(items) == [i \in DOMAIN items |-> <<items[i][2], items[i][1]>>]

SYM2PRIO == DictOf(SYM2PRIO_items)
PRIO2SYM_items == DictItems(Inverted(SYM2PRIO_items))
PRIO2SYM == DictOf(PRIO2SYM_items)

id_cols_specs == << "device_name", "virtualization_type", "cluster_name",
                    "operating_system_type", "esx_version",
                    "total_number_of_processors", "cores_per_cpu",
                    "total_number_of_cores", "total_number_of_threads",
                    "cpu_model", "oracle_core_factor", "manufacturer", "model",
                    "number_of_vms" >>

hosts_desired_ids_empty == << "cluster_name", "physical_device", "number_of_vms",
                              "operating_system_type", "esx_version", "manufacturer",
                              "model", "cpu_model", "total_number_of_processors",
                              "cores_per_cpu", "total_number_of_cores",
                              "oracle_core_factor" >>

hosts_desired_ids == << "cluster_name", "physical_device", "number_of_vms",
                        "operating_system_type", "esx_version", "model_x", "model_y",
                        "manufacturer", "model", "cpu_model",
                        "total_number_of_processors", "cores_per_cpu",
                        "total_number_of_cores", "oracle_core_factor" >>

\* to_int = lambda v, d=0: int(v) if str(v).isdigit() else d
to_int(v, d) == IF isdigit(v) THEN v ELSE d

\* r.get(col, 0) <= 1 on a numeric cell (NaN compares False)
at_most_one(v) == isdigit(v) /\ int(v) <= 1

\* _fix_vmware_row with the thread count set to the reported core count
fix_vmware_row_threads_as_cores(r) ==
    IF str_lower(r["virtualization_type"]) # "vmware" THEN r
    ELSE IF r["raw_data"].kind # "dict" THEN r
    ELSE
        LET j == r["raw_data"].j
            cores == to_int(dict_get(j, "# Cores", None), "1")
        IN  [c \in DOMAIN r |->
                CASE c = "total_number_of_processors" /\ at_most_one(r[c]) ->
                        to_int(dict_get(j, "# CPU", None), "1")
                  [] c = "total_number_of_cores" /\ at_most_one(r[c]) -> cores
                  [] c = "total_number_of_threads" /\ at_most_one(r[c]) -> cores
                  [] c = "cores_per_cpu" /\ "Cores per CPU" \in DOMAIN j ->
                        to_int(j["Cores per CPU"], "0")
                  [] c = "esx_version" /\ "ESX Version" \in DOMAIN j -> j["ESX Version"]
                  [] c = "manufacturer" /\ r[c] = NaN
                        /\ truthy(dict_get(j, "Vendor", None)) -> j["Vendor"]
                  [] OTHER -> r[c]]

\* _fix_vmware_row
fix_vmware_row(r) ==
    IF str_lower(r["virtualization_type"]) # "vmware" THEN r
    ELSE IF r["raw_data"].kind # "dict" THEN r
    ELSE
        LET j == r["raw_data"].j
            cores == to_int(dict_get(j, "# Cores", None), "1")
        IN  [c \in DOMAIN r |->
                CASE c = "total_number_of_processors" /\ at_most_one(r[c]) ->
                        to_int(dict_get(j, "# CPU", None), "1")
                  [] c = "total_number_of_cores" /\ at_most_one(r[c]) -> cores
                  [] c = "total_number_of_threads" /\ at_most_one(r[c]) ->
                        str(int(cores) * 2)
                  [] c = "cores_per_cpu" /\ "Cores per CPU" \in DOMAIN j ->
                        to_int(j["Cores per CPU"], "0")
                  [] c = "esx_version" /\ "ESX Version" \in DOMAIN j -> j["ESX Version"]
                  [] c = "manufacturer" /\ r[c] = NaN
                        /\ truthy(dict_get(j, "Vendor", None)) -> j["Vendor"]
                  [] OTHER -> r[c]]

\* the sizing override left out
override_vmware_sizing_skipped(r) == r

\* _override_vmware_sizing, applied to the rows of vm_mask; the payload is
\* read by json.loads and, when that fails, by ast.literal_eval (kind
\* "pydict": a Python-literal mapping that is not JSON)
override_vmware_sizing(r) ==
    IF str_lower(r["virtualization_type"]) # "vmware" THEN r
    ELSE
        LET payload == IF r["raw_data"].kind \in { "dict", "pydict" } THEN r["raw_data"].j
                       ELSE [k \in {} |-> ""]
            procs == dict_get(payload, "# CPU", r["total_number_of_processors"])
        IN  [c \in DOMAIN r |->
                CASE c = "total_number_of_processors" -> procs
                  [] c = "cores_per_cpu" -> dict_get(payload, "Cores per CPU", r[c])
                  [] c = "total_number_of_cores" -> dict_get(payload, "# Cores", r[c])
                  [] OTHER -> r[c]]

\* the live inventory after both corrections, cut to id_cols_specs, one row
\* per device_name, device_name renamed to physical_device
host_specs(rows) ==
    LET fixed == [i \in DOMAIN rows |-> override_vmware_sizing(fix_vmware_row(rows[i]))]
        uniq == drop_duplicates(fixed, [i \in DOMAIN fixed |-> fixed[i]["device_name"]])
    IN  [i \in DOMAIN uniq |->
            [c \in (Range(id_cols_specs) \ {"device_name"}) \cup {"physical_device"} |->
                IF c = "physical_device" THEN uniq[i]["device_name"] ELSE uniq[i][c]]]

possible_sizing == << "number_of_virtual_threads", "cpu_threads", "lscpu_total_threads" >>
sizing_cols_vm(cols) == SelectSeq(possible_sizing, LAMBDA c : c \in Range(cols))

\* pd.to_numeric(col, errors="coerce").fillna(0).astype(int) on one cell
to_numeric0(v) == IF isdigit(v) THEN v ELSE "0"

hosts_excluded_cols(cols) ==
    { "virtual_device", "physical_device", "virtualization_type",
      "operating_system_type", "domain", "pool", "cpu_model",
      "number_of_virtual_processors", "number_of_virtual_cores",
      "number_of_virtual_threads" } \cup Range(sizing_cols_vm(cols))

hosts_option_cols(cols) == Without(cols, hosts_excluded_cols(cols))

\* df_prior[col].astype(str).map(SYM2PRIO).fillna(0).astype(int) on one cell
sym2prio(v) == dict_get(SYM2PRIO, v, 0)

RECURSIVE SeqSum(_)
SeqSum(s) == IF s = <<>> THEN 0 ELSE Head(s) + SeqSum(Tail(s))

\* grouped[option_cols].first() on the priorities of one group, one column
opts_first(ps) == ps[1]

\* grouped[option_cols].max() on the priorities of one group, one column
opts_max(ps) == CHOOSE m \in Range(ps) : \A x \in Range(ps) : x <= m

\* grouped[sizing_cols_vm].sum() on the cells of one group, one column
sizing_sum(vs) == str(SeqSum([i \in DOMAIN vs |-> int(vs[i])]))

\* df_hosts[col].map(PRIO2SYM) on one cell
prio2sym(p) == PRIO2SYM[p]

\* .fillna("") on a cell that may hold None
fillna_cell(v) == IF v = NaN \/ v = None THEN "" ELSE v

hosts_drop == { "total_number_of_threads", "capped", "cpu_speed",
                "device_manufacturer", "device_model", "hyper_threading",
                "lscpu_cores_per_socket", "lscpu_hypervisor",
                "lscpu_threads_per_core", "number_of_virtual_processors",
                "operating_system_release", "virtualization_type",
                "lscpu_total_threads", "oracle_core_factor_x",
                "oracle_core_factor_y" }

\* the part of build_hosts_df after the host specs are loaded: vm is the VM
\* table (sizing columns already numeric), specs the rows of host_specs
hosts_rollup(vm, specs) ==
    LET sizing == sizing_cols_vm(vm.cols)
        ocols == hosts_option_cols(vm.cols)
        \* groupby drops the rows whose key is NaN
        devices == SortedNames({vm.rows[i]["physical_device"] : i \in DOMAIN vm.rows}
                               \ {NaN})
        scols == Without(id_cols_specs, {"device_name"})
        size_cols == IF sizing # <<>> THEN sizing ELSE << "sizing_note" >>
        cols0 == << "physical_device" >> \o ocols \o size_cols \o scols
                 \o << "data_source" >>
        SpecOf(d) == SelectSeq(specs, LAMBDA h : h["physical_device"] = d)
        row0(d) ==
            LET spec == SpecOf(d) IN
            ("physical_device" :> d) @@
            [c \in Range(ocols) |->
                prio2sym(opts_max(
                    LET g == GroupCells(vm.rows, "physical_device", d, c)
                    IN  [i \in DOMAIN g |-> sym2prio(g[i])]))] @@
            [c \in Range(size_cols) |->
                IF sizing # <<>>
                THEN sizing_sum(GroupCells(vm.rows, "physical_device", d, c))
                ELSE "NO VIRTUAL SIZING DATA FOUND"] @@
            [c \in Range(scols) |->
                IF spec = <<>> THEN NaN ELSE spec[1][c]] @@
            ("data_source" :>
                IF spec # <<>> /\ spec[1]["cluster_name"] = "DECLARED"
                THEN "declared" ELSE "discovered")
        cols1 == Without(cols0, hosts_drop)
        id_block == SelectSeq(hosts_desired_ids, LAMBDA c : c \in Range(cols1))
        option_block == sorted(Without(cols1, Range(id_block)))
        final == id_block \o option_block
    IN  [ok |-> TRUE,
         cols |-> final,
         rows |-> [i \in DOMAIN devices |->
                      LET r == row0(devices[i])
                      IN  [c \in Range(final) |-> fillna_cell(r[c])]]]

\* the sizing columns of the VM table made numeric in place
vm_numeric(vm) ==
    [vm EXCEPT !.rows =
        [i \in DOMAIN vm.rows |->
            [c \in DOMAIN vm.rows[i] |->
                IF c \in Range(sizing_cols_vm(vm.cols))
                THEN to_numeric0(vm.rows[i][c]) ELSE vm.rows[i][c]]]]

\* the header-only table with the VM columns in their own order
hosts_empty_table_unsorted(vm) ==
    [ok |-> TRUE,
     cols |-> hosts_desired_ids_empty
              \o Without(vm.cols, {"virtual_device", "physical_device"}),
     rows |-> <<>>]

\* tier (c): the header-only table
hosts_empty_table(vm) ==
    [ok |-> TRUE,
     cols |-> hosts_desired_ids_empty
              \o sorted(Without(vm.cols, {"virtual_device", "physical_device"})),
     rows |-> <<>>]

\* tier (b): the declaration CSV as host specs; vm has no physical_device
\* column yet (with one, the merge yields physical_device_x / _y)
declared_vm(vm, declared) ==
    [cols |-> vm.cols \o << "physical_device" >>,
     rows |-> Flatten([i \in DOMAIN vm.rows |->
        LET m == SelectSeq(declared, LAMBDA d :
                     d["virtual_device"] = vm.rows[i]["virtual_device"])
        IN  IF m = <<>> THEN << vm.rows[i] @@ ("physical_device" :> NaN) >>
            ELSE [j \in DOMAIN m |->
                    vm.rows[i] @@ ("physical_device" :> m[j]["physical_device"])]])]

\* vm_counts merged onto the declared rows, missing spec columns added
declared_specs(vmd, declared) ==
    [i \in DOMAIN declared |->
        LET d == declared[i]
            n == Len(SelectSeq(vmd.rows, LAMBDA r :
                        r["physical_device"] = d["physical_device"]))
        IN  ("device_name" :> d["physical_device"]) @@
            ("model" :> d["model_y"]) @@
            ("virtualization_type" :> "declared") @@
            ("cluster_name" :> "DECLARED") @@
            ("operating_system_type" :> "unknown") @@
            ("esx_version" :> "N/A") @@
            ("data_source" :> "declared") @@
            ("number_of_vms" :> IF n = 0 THEN NaN ELSE str(n)) @@
            ("total_number_of_threads" :> "") @@
            ("oracle_core_factor" :> "") @@
            d]

\* build_hosts_df(df_virtual_devices, physical_hosts_json); vm in the result
\* is the caller's VM table afterwards
build_hosts_df(vm, ph) ==
    CASE ph.tier = "json" ->
            IF "physical_device" \notin Range(vm.cols)
            THEN NoTable @@ [vm |-> vm]
            ELSE hosts_rollup(vm_numeric(vm), host_specs(ph.rows))
                 @@ [vm |-> vm_numeric(vm)]
      [] ph.tier = "csv" ->
            IF "physical_device" \in Range(vm.cols)
            THEN NoTable @@ [vm |-> vm]
            ELSE LET vmd == declared_vm(vm, ph.declared)
                 IN  hosts_rollup(vm_numeric(vmd),
                                  host_specs(declared_specs(vmd, ph.declared)))
                     @@ [vm |-> vm]
      [] OTHER -> hosts_empty_table(vm) @@ [vm |-> vm]

\* ------------------------------------------------------------------------
\* builders/clusters_tab.py
\* ------------------------------------------------------------------------
clusters_SYM2PRIO == DictOf(Inverted(PRIO2SYM_items))

clusters_id_block == << "visdk_server", "cluster_name", "instance_uuid",
                        "number_of_hosts", "admission_control_enabled",
                        "num_vmotions", "ha_enabled", "drs_enabled",
                        "overall_status", "total_number_of_processors",
                        "total_number_of_cores" >>

RAW_KEY_MAP == << <<"Config status", "config_status">>,
                  <<"OverallStatus", "overall_status">>,
                  <<"NumHosts", "number_of_hosts">>,
                  <<"NumCpuCores", "total_number_of_cores">>,
                  <<"NumCpuThreads", "total_number_of_threads">>,
                  <<"Num Vmotions", "num_vmotions">>,
                  <<"HA Enabled", "ha_enabled">>,
                  <<"DRS enabled", "drs_enabled">>,
                  <<"AdmissionControlEnabled", "admission_control_enabled">>,
                  <<"FailoverLevel", "failover_level">>,
                  <<"VI SDK Server", "visdk_server">>,
                  <<"InstanceUUID", "instance_uuid">> >>

RawCols == [i \in DOMAIN RAW_KEY_MAP |-> RAW_KEY_MAP[i][2]]
RawKeyOf(col) == RAW_KEY_MAP[CHOOSE i \in DOMAIN RAW_KEY_MAP : RAW_KEY_MAP[i][2] = col][1]

\* _extract_cluster_fields
extract_cluster_fields(r) ==
    LET payload == IF r["raw_data"].kind = "dict" THEN r["raw_data"].j
                   ELSE [k \in {} |-> ""]
    IN  [c \in DOMAIN r \cup Range(RawCols) |->
            IF c \in Range(RawCols) /\ (c \notin DOMAIN r \/ ~truthy(r[c]))
            THEN dict_get(payload, RawKeyOf(c), "")
            ELSE r[c]]

clusters_keep == << "cluster_name", "number_of_hosts", "total_number_of_processors",
                    "total_number_of_cores", "total_number_of_threads",
                    "overall_status", "config_status", "ha_enabled", "drs_enabled",
                    "num_vmotions", "failover_level", "admission_control_enabled",
                    "visdk_server", "instance_uuid" >>

clusters_non_opts == { "cluster_name", "physical_device", "number_of_vms",
                       "operating_system_type", "esx_version", "manufacturer",
                       "model", "cpu_model", "total_number_of_processors",
                       "cores_per_cpu", "total_number_of_cores" }

clusters_drop == { "config_status", "failover_level", "total_number_of_threads" }

\* the first non-missing cell of one cluster, one column
cluster_opts_first(cells) ==
    LET syms == SelectSeq(cells, LAMBDA x : x # NaN)
    IN  IF syms # <<>> THEN syms[1] ELSE ""

\* _cluster_opts on the cells of one cluster, one column
cluster_opts(cells) ==
    LET syms == SelectSeq(cells, LAMBDA x : x # NaN)
    IN  IF syms # <<>>
        THEN py_max(syms, [i \in DOMAIN syms |-> dict_get(clusters_SYM2PRIO, syms[i], 0)])
        ELSE ""

\* the header-only table with the host columns in their own order
clusters_empty_table_unsorted(hosts) ==
    [ok |-> TRUE,
     cols |-> clusters_id_block \o Without(hosts.cols, Range(clusters_id_block)),
     rows |-> <<>>]

\* the header-only table returned when the cluster inventory cannot be read
clusters_empty_table(hosts) ==
    [ok |-> TRUE,
     cols |-> clusters_id_block \o sorted(Without(hosts.cols, Range(clusters_id_block))),
     rows |-> <<>>]

\* build_clusters_df(df_hosts, virtual_clusters_json) with the inventory read
clusters_rollup(hosts, inv) ==
    LET renamed == [i \in DOMAIN inv |->
                      ("cluster_name" :> inv[i]["device_name"]) @@
                      ("number_of_hosts" :> inv[i]["number_of_cluster_members"]) @@
                      ("raw_data" :> inv[i]["raw_data"])]
        incols == << "cluster_name", "number_of_hosts", "raw_data" >>
        unpacked == [i \in DOMAIN renamed |-> extract_cluster_fields(renamed[i])]
        cols0 == incols \o Without(RawCols, Range(incols))
        keep == SelectSeq(clusters_keep, LAMBDA c : c \in Range(cols0))
        specs_grp == drop_duplicates(unpacked,
                        [i \in DOMAIN unpacked |-> unpacked[i]["cluster_name"]])
        opt_cols == Without(hosts.cols, clusters_non_opts)
        members == {hosts.rows[i]["cluster_name"] : i \in DOMAIN hosts.rows}
        cols1 == Without(keep \o opt_cols, clusters_drop)
        id_block == SelectSeq(clusters_id_block, LAMBDA c : c \in Range(cols1))
        final == id_block \o sorted(Without(cols1, Range(id_block)))
        row0(sp) ==
            [c \in Range(opt_cols) |->
                IF sp["cluster_name"] \in members
                THEN cluster_opts(GroupCells(hosts.rows, "cluster_name",
                                             sp["cluster_name"], c))
                ELSE NaN] @@ sp
    IN  [ok |-> TRUE,
         cols |-> final,
         rows |-> [i \in DOMAIN specs_grp |->
                      LET r == row0(specs_grp[i])
                      IN  [c \in Range(final) |-> fillna_cell(r[c])]]]

\* ------------------------------------------------------------------------
\* Inputs
\* ------------------------------------------------------------------------
EmptyTable == [ok |-> TRUE, cols |-> <<>>, rows |-> <<>>]

Db(dev, db) == [device_name |-> dev, database_name |-> db]

Ev(dev, db, opt, res, id) ==
    [device_name |-> dev, database_name |-> db, option_name |-> opt,
     result |-> res, dbid |-> id]

Results == { "used", "historical", "verify", "", "USED", " used ", "bogus" }

\* the installed-database inventories of the database-level runs: empty, one
\* database, two databases of one VM in both orders, a repeated record, two
\* VMs, and names that differ from the evidence's in case and spacing
Inventories ==
    { << >>,
      << Db("vm1", "db1") >>,
      << Db("vm1", "db1"), Db("vm1", "db2") >>,
      << Db("vm1", "db2"), Db("vm1", "db1") >>,
      << Db("vm1", "db1"), Db("vm1", "db1") >>,
      << Db("vm1", "db1"), Db("vm2", "db1") >>,
      << Db("VM1 ", "DB1") >>,
      << Db("VM1 ", "DB1"), Db("vm1", "db1") >> }

EvidenceRows ==
    { Ev("vm1", "db1", "Partitioning", r, NaN) : r \in Results } \cup
    { Ev("vm1", "db1", "Partitioning", "used", "7"),
      Ev("VM1 ", "DB1", "Partitioning ", "verify", "7"),
      Ev("vm1", "db2", "Tuning", "cloned", NaN) }

Payload(kind, j) == [kind |-> kind, j |-> j]
NoPayload == Payload("absent", [k \in {} |-> ""])

Vm(name, host, cores, raw) ==
    ("device_name" :> name) @@ ("physical_host" :> host) @@
    ("virtualization_type" :> "VMWare") @@
    ("total_number_of_processors" :> "2") @@
    ("total_number_of_cores" :> cores) @@
    ("total_number_of_threads" :> "4") @@
    ("cpu_model" :> "Xeon") @@ ("raw_data" :> raw)

VmNames == << "vm1", "vm2", "vm3", "vm4" >>

\* the VM inventory: VM i runs on hostOf[i]; the first one reports its
\* thread count in the embedded payload
VmInventory(hostOf) ==
    [i \in DOMAIN hostOf |->
        Vm(VmNames[i], hostOf[i], str(2 * i),
           IF i = 1 THEN Payload("dict", ("lscpu_total_threads" :> "4"))
           ELSE NoPayload)]

Host(name, cluster, vtype, procs, raw) ==
    ("device_name" :> name) @@ ("virtualization_type" :> vtype) @@
    ("cluster_name" :> cluster) @@ ("operating_system_type" :> "ESXi") @@
    ("esx_version" :> "6.7") @@ ("total_number_of_processors" :> procs) @@
    ("cores_per_cpu" :> "4") @@ ("total_number_of_cores" :> procs) @@
    ("total_number_of_threads" :> procs) @@ ("cpu_model" :> "Xeon") @@
    ("oracle_core_factor" :> "0.5") @@ ("manufacturer" :> NaN) @@
    ("model" :> "R740") @@ ("number_of_vms" :> "2") @@ ("raw_data" :> raw)

\* the live host inventory; cluster2 is the name of the cluster of h2
HostInventory(cluster2) ==
    << Host("h1", "c1", "VMWare", "1",
            Payload("dict", ("# CPU" :> "4") @@ ("# Cores" :> "8") @@ ("Vendor" :> "Dell"))),
       Host("h2", cluster2, "KVM", "2", NoPayload) >>

Declared(vmname, host) ==
    ("virtual_device" :> vmname) @@ ("physical_device" :> host) @@
    ("model_y" :> "R740") @@ ("manufacturer" :> "Dell") @@
    ("cpu_model" :> "Xeon") @@ ("total_number_of_processors" :> "2") @@
    ("cores_per_cpu" :> "4") @@ ("total_number_of_cores" :> "8")

DeclaredTable == << Declared("vm1", "h1") >>

Cluster(name, members, raw) ==
    ("device_name" :> name) @@ ("number_of_cluster_members" :> members) @@
    ("raw_data" :> raw)

ClusterInventory ==
    << Cluster("c1", "2", Payload("dict", ("HA Enabled" :> "True") @@ ("NumHosts" :> "3"))),
       Cluster("c2", "0", NoPayload) >>

\* ------------------------------------------------------------------------
\* driver.py
\* ------------------------------------------------------------------------
InitTables ==
    /\ pc = "evidence"
    /\ df_db = EmptyTable
    /\ df_vm = EmptyTable
    /\ df_hosts = EmptyTable
    /\ df_clusters = EmptyTable
    /\ saved = 0

\* the database level varies; the topology is fixed: vm1 and vm2 on h1, the
\* live host inventory and the cluster inventory present
Init ==
    /\ InitTables
    /\ \E rows \in Inventories :
           oracle_dbs = [present |-> TRUE, rows |-> rows]
    /\ \E rows \in SeqsUpTo(EvidenceRows, MaxEvidence) :
           options_evidence = [present |-> TRUE, rows |-> rows]
    /\ virtual_devices = [present |-> TRUE, has_physical_host |-> TRUE,
                          rows |-> VmInventory(<< "h1", "h1" >>)]
    /\ physical_hosts = [tier |-> "json", rows |-> HostInventory("c1"),
                         declared |-> DeclaredTable]
    /\ virtual_clusters = [present |-> TRUE, rows |-> ClusterInventory]

\* the topology varies: one to MaxVms virtual machines, the first on h1 and
\* the others on h1 or h2, each hosting one database with one piece of
\* evidence of one of the five result categories
Categories == { "used", "historical", "cloned", "verify", "" }

\* (host tier, VM inventory carries physical_host, cluster inventory present,
\* name of the cluster of h2 in the live host inventory)
Scenarios ==
    { << "json", TRUE, TRUE, "c1" >>, << "json", TRUE, FALSE, "c1" >>,
      << "json", FALSE, TRUE, "c1" >>, << "json", TRUE, TRUE, "DECLARED" >>,
      << "csv", FALSE, TRUE, "c1" >>, << "csv", TRUE, TRUE, "c1" >>,
      << "none", TRUE, TRUE, "c1" >>, << "none", TRUE, FALSE, "c1" >>,
      << "none", FALSE, TRUE, "c1" >> }

InitTopo ==
    /\ InitTables
    /\ \E n \in 1..MaxVms :
        /\ oracle_dbs = [present |-> TRUE,
                         rows |-> [i \in 1..n |-> Db(VmNames[i], "db1")]]
        /\ \E res \in [1..n -> Categories] :
               options_evidence =
                   [present |-> TRUE,
                    rows |-> [i \in 1..n |->
                                Ev(VmNames[i], "db1", "Partitioning", res[i], NaN)]]
        /\ \E hostOf \in [1..n -> { "h1", "h2" }], sc \in Scenarios :
            /\ hostOf[1] = "h1"
            /\ virtual_devices = [present |-> TRUE, has_physical_host |-> sc[2],
                                  rows |-> VmInventory(hostOf)]
            /\ physical_hosts = [tier |-> sc[1], rows |-> HostInventory(sc[4]),
                                 declared |-> DeclaredTable]
            /\ virtual_clusters = [present |-> sc[3], rows |-> ClusterInventory]

\* one record of Physical Hosts.json with every corrected field given
HostRow(vtype, counts, cpc, esx, manu, raw) ==
    ("device_name" :> "h1") @@ ("virtualization_type" :> vtype) @@
    ("cluster_name" :> "c1") @@ ("operating_system_type" :> "ESXi") @@
    ("esx_version" :> esx) @@ ("total_number_of_processors" :> counts[1]) @@
    ("cores_per_cpu" :> cpc) @@ ("total_number_of_cores" :> counts[2]) @@
    ("total_number_of_threads" :> counts[3]) @@ ("cpu_model" :> "Xeon") @@
    ("oracle_core_factor" :> "0.5") @@ ("manufacturer" :> manu) @@
    ("model" :> "R740") @@ ("number_of_vms" :> "1") @@ ("raw_data" :> raw)

\* what the payload of a host record may report
HostPayloadItems ==
    ("# CPU" :> "4") @@ ("# Cores" :> "8") @@ ("Cores per CPU" :> "6") @@
    ("ESX Version" :> "7.0") @@ ("Vendor" :> "Dell")

\* the payloads of a host record: none, text that does not parse, a JSON
\* object with any of the reported keys, and a Python-literal mapping that
\* is not JSON
HostPayloads ==
    { NoPayload, Payload("malformed", [k \in {} |-> ""]) } \cup
    { Payload("dict", [k \in K |-> HostPayloadItems[k]]) :
        K \in SUBSET DOMAIN HostPayloadItems } \cup
    { Payload("pydict", [k \in K |-> HostPayloadItems[k]]) :
        K \in { {}, { "# CPU" }, { "# Cores", "Cores per CPU" },
                DOMAIN HostPayloadItems } }

\* (processors, cores, threads) of a host record
HostCounts == { << "1", "1", "1" >>, << "0", "1", "2" >>, << "1", "4", "1" >>,
                << "2", "4", "8" >> }

\* the live host inventory varies: one host record, vm1 running on it
InitHostRow ==
    /\ InitTables
    /\ oracle_dbs = [present |-> TRUE, rows |-> << Db("vm1", "db1") >>]
    /\ options_evidence =
           [present |-> TRUE,
            rows |-> << Ev("vm1", "db1", "Partitioning", "used", NaN) >>]
    /\ virtual_devices = [present |-> TRUE, has_physical_host |-> TRUE,
                          rows |-> VmInventory(<< "h1" >>)]
    /\ \E vtype \in { "VMWare", "vmware", "KVM" }, counts \in HostCounts,
          cpc \in { "4", NaN }, esx \in { "6.7", NaN }, manu \in { "HP", NaN },
          raw \in HostPayloads :
           physical_hosts = [tier |-> "json",
                             rows |-> << HostRow(vtype, counts, cpc, esx, manu, raw) >>,
                             declared |-> DeclaredTable]
    /\ virtual_clusters = [present |-> TRUE, rows |-> ClusterInventory]

\* a backfill attribute of a VM record: the column is absent, or the cell is
\* empty, null (NaN in a numeric column, None in a column of objects), an
\* explicit zero / false, or a populated value
VmExplicit == { << FALSE, "" >>, << TRUE, "" >>, << TRUE, NaN >>, << TRUE, None >>,
                << TRUE, "0" >>, << TRUE, "8" >> }

\* the payloads of a VM record: none, text that cannot be read, text that
\* parses to a list, a mapping without the attribute, a mapping with it
VmPayloads(k) ==
    { NoPayload, Payload("malformed", [x \in {} |-> ""]),
      Payload("list", [x \in {} |-> ""]),
      Payload("dict", ("cpu_speed" :> "2400")),
      Payload("dict", (k :> "2") @@ ("cpu_speed" :> "2400")) }

\* the VM inventory varies: one VM record that may carry a backfill
\* attribute itself, with any payload
InitVmRow ==
    /\ InitTables
    /\ oracle_dbs = [present |-> TRUE, rows |-> << Db("vm1", "db1") >>]
    /\ options_evidence =
           [present |-> TRUE,
            rows |-> << Ev("vm1", "db1", "Partitioning", "used", NaN) >>]
    /\ \E k \in { "hyper_threading", "lscpu_total_threads" }, e \in VmExplicit :
        \E raw \in VmPayloads(k) :
           virtual_devices =
               [present |-> TRUE, has_physical_host |-> TRUE,
                rows |-> << IF e[1] THEN Vm("vm1", "h1", "2", raw) @@ (k :> e[2])
                            ELSE Vm("vm1", "h1", "2", raw) >>]
    /\ \E tier \in { "json", "none" } :
           physical_hosts = [tier |-> tier, rows |-> HostInventory("c1"),
                             declared |-> DeclaredTable]
    /\ virtual_clusters = [present |-> TRUE, rows |-> ClusterInventory]

\* the input files vary: each of the evidence file, the database inventory
\* and the VM inventory may be missing or unreadable, with any host tier,
\* with and without the cluster inventory
InitFiles ==
    /\ InitTables
    /\ \E present \in BOOLEAN :
           oracle_dbs = [present |-> present, rows |-> << Db("vm1", "db1") >>]
    /\ \E present \in BOOLEAN, res \in Categories :
           options_evidence =
               [present |-> present,
                rows |-> << Ev("vm1", "db1", "Partitioning", res, NaN) >>]
    /\ \E present \in BOOLEAN :
           virtual_devices = [present |-> present, has_physical_host |-> TRUE,
                              rows |-> VmInventory(<< "h1" >>)]
    /\ \E tier \in { "json", "csv", "none" } :
           physical_hosts = [tier |-> tier, rows |-> HostInventory("c1"),
                             declared |-> DeclaredTable]
    /\ \E present \in BOOLEAN :
           virtual_clusters = [present |-> present, rows |-> ClusterInventory]

\* an uncaught exception that would still write the workbook
Fail_saving ==
    /\ pc' = "failed"
    /\ saved' = saved + 1
    /\ UNCHANGED <<df_db, df_vm, df_hosts, df_clusters>>

Fail ==
    /\ pc' = "failed"
    /\ UNCHANGED <<df_db, df_vm, df_hosts, df_clusters, saved>>

\* evidence_tab.build_evidence_tab: reads the evidence file, writes its sheet
BuildEvidenceTab ==
    /\ pc = "evidence"
    /\ IF options_evidence.present
       THEN /\ pc' = "db"
            /\ UNCHANGED <<df_db, df_vm, df_hosts, df_clusters, saved>>
       ELSE Fail
    /\ UNCHANGED <<oracle_dbs, options_evidence, virtual_devices, physical_hosts,
                   virtual_clusters>>

\* db_details_tab.build
BuildDbDetails ==
    /\ pc = "db"
    /\ LET t == build_db_details_df(oracle_dbs.rows, options_evidence.rows)
       IN  IF oracle_dbs.present /\ t.ok
           THEN /\ df_db' = t
                /\ pc' = "vm"
                /\ UNCHANGED <<df_vm, df_hosts, df_clusters, saved>>
           ELSE Fail
    /\ UNCHANGED <<oracle_dbs, options_evidence, virtual_devices, physical_hosts,
                   virtual_clusters>>

\* allowed_vms = df_db["device_name"].unique(); virtual_devices_tab.build
BuildVirtualDevices ==
    /\ pc = "vm"
    /\ IF virtual_devices.present
       THEN /\ df_vm' = build_virtual_devices_df(
                            virtual_devices,
                            {df_db.rows[i]["device_name"] : i \in DOMAIN df_db.rows},
                            df_db)
            /\ pc' = "hosts"
            /\ UNCHANGED <<df_db, df_hosts, df_clusters, saved>>
       ELSE Fail
    /\ UNCHANGED <<oracle_dbs, options_evidence, virtual_devices, physical_hosts,
                   virtual_clusters>>

\* hosts_tab.build
BuildHosts ==
    /\ pc = "hosts"
    /\ LET t == build_hosts_df(df_vm, physical_hosts)
       IN  IF t.ok
           THEN /\ df_hosts' = [ok |-> TRUE, cols |-> t.cols, rows |-> t.rows]
                /\ df_vm' = t.vm
                /\ pc' = "clusters"
                /\ UNCHANGED <<df_db, df_clusters, saved>>
           ELSE Fail
    /\ UNCHANGED <<oracle_dbs, options_evidence, virtual_devices, physical_hosts,
                   virtual_clusters>>

\* clusters_tab.build; what groupby().apply() makes of a host table without
\* rows depends on the pandas release: the stage may raise or go on
BuildClusters ==
    /\ pc = "clusters"
    /\ \/ /\ ~virtual_clusters.present
          /\ df_clusters' = clusters_empty_table(df_hosts)
          /\ pc' = "save"
          /\ UNCHANGED <<df_db, df_vm, df_hosts, saved>>
       \/ /\ virtual_clusters.present
          /\ df_clusters' = clusters_rollup(df_hosts, virtual_clusters.rows)
          /\ pc' = "save"
          /\ UNCHANGED <<df_db, df_vm, df_hosts, saved>>
       \/ /\ virtual_clusters.present
          /\ df_hosts.rows = <<>>
          /\ Fail
    /\ UNCHANGED <<oracle_dbs, options_evidence, virtual_devices, physical_hosts,
                   virtual_clusters>>

\* wb.save(output_path)
Save ==
    /\ pc = "save"
    /\ saved' = saved + 1
    /\ pc' = "done"
    /\ UNCHANGED <<oracle_dbs, options_evidence, virtual_devices, physical_hosts,
                   virtual_clusters, df_db, df_vm, df_hosts, df_clusters>>

Next ==
    \/ BuildEvidenceTab
    \/ BuildDbDetails
    \/ BuildVirtualDevices
    \/ BuildHosts
    \/ BuildClusters
    \/ Save

Spec == Init /\ [][Next]_vars

SpecTopo == InitTopo /\ [][Next]_vars

SpecHostRow == InitHostRow /\ [][Next]_vars

SpecFiles == InitFiles /\ [][Next]_vars

SpecVmRow == InitVmRow /\ [][Next]_vars

\* ------------------------------------------------------------------------
\* Properties of the roll-ups
\* ------------------------------------------------------------------------
\* the priority/symbol pairing of the symbols shown in the sheets
Symbols == { "", "^", "#", "~", "+" }
SymbolRank == ("" :> 0) @@ ("^" :> 1) @@ ("#" :> 2) @@ ("~" :> 3) @@ ("+" :> 4)
RankSymbol(p) == CHOOSE s \in Symbols : SymbolRank[s] = p

\* the maximum-priority symbol of a set of cells; the empty symbol for none
MaxSymbol(cells) ==
    IF cells = {} THEN ""
    ELSE CHOOSE s \in cells : \A t \in cells : SymbolRank[t] <= SymbolRank[s]

\* the priority of a result string, ignoring its case and surrounding blanks
CategoryRank(res) ==
    LET n == str_lower(str_strip(res))
    IN  CASE n = "used" -> 4
          [] n = "historical" -> 3
          [] n = "cloned" -> 2
          [] n = "verify" -> 1
          [] OTHER -> 0

Padded(res) == str_strip(res) # res

\* the option columns of the sheets: the option keys of the evidence
OptionColumns == Range(OptKeys(options_evidence.rows))

\* the evidence rows of the (device, database, option) triple of row r, column c
TripleOf(r, c) ==
    {i \in DOMAIN options_evidence.rows :
        /\ device_key(options_evidence.rows[i]) = device_key(r)
        /\ db_key(options_evidence.rows[i]) = db_key(r)
        /\ opt_key(options_evidence.rows[i]) = c}

MaxRank(m) ==
    CHOOSE p \in 0..4 :
        /\ \E i \in m : CategoryRank(options_evidence.rows[i].result) = p
        /\ \A i \in m : CategoryRank(options_evidence.rows[i].result) <= p

DbBuilt == df_db.cols # <<>>
VmBuilt == df_vm.cols # <<>>
HostsBuilt == df_hosts.cols # <<>>
ClustersBuilt == df_clusters.cols # <<>>

\* the Database Details rows of one VM
DbRowsOf(vmname) ==
    {j \in DOMAIN df_db.rows : df_db.rows[j]["virtual_device"] = vmname}

\* C1: in the Virtual Device Rollup every option cell of a VM is the
\* maximum-priority symbol (+ > ~ > # > ^ > empty) among that VM's Database
\* Rollup rows, whatever the order of those rows.
C1_VmRollupIsMax ==
    VmBuilt =>
        \A i \in DOMAIN df_vm.rows : \A c \in OptionColumns :
            df_vm.rows[i][c] =
                MaxSymbol({df_db.rows[j][c] :
                              j \in DbRowsOf(df_vm.rows[i]["virtual_device"])})

\* C2: for every (device, database, option) triple present in the evidence
\* whose results carry no surrounding blanks, the cell of every matching
\* Database Rollup row is the symbol of the highest-priority result of the
\* triple (used > historical > cloned > verify > empty), whatever the order
\* of the evidence rows.
C2_BestResult ==
    DbBuilt =>
        \A j \in DOMAIN df_db.rows : \A c \in OptionColumns :
            LET m == TripleOf(df_db.rows[j], c)
            IN  (m # {} /\ \A i \in m : ~Padded(options_evidence.rows[i].result))
                => df_db.rows[j][c] = RankSymbol(MaxRank(m))

\* a triple with two results, the weaker one first in the file, shows the
\* stronger one's symbol
C2_Witness ==
    /\ DbBuilt
    /\ \E j \in DOMAIN df_db.rows : \E c \in OptionColumns :
          LET m == TripleOf(df_db.rows[j], c)
          IN  /\ \A i \in m : ~Padded(options_evidence.rows[i].result)
              /\ \E i1, i2 \in m :
                    /\ i1 < i2
                    /\ CategoryRank(options_evidence.rows[i1].result)
                         < CategoryRank(options_evidence.rows[i2].result)
              /\ df_db.rows[j][c] = RankSymbol(MaxRank(m))
              /\ df_db.rows[j][c] # ""

\* C7: every evidence result is classified without regard to case and
\* surrounding blanks: a triple with a single evidence row shows the symbol
\* of that row's category, and the empty symbol when it matches none.
C7_ResultNormalised ==
    DbBuilt =>
        \A j \in DOMAIN df_db.rows : \A c \in OptionColumns :
            LET m == TripleOf(df_db.rows[j], c)
            IN  Cardinality(m) = 1 =>
                    \A i \in m :
                        df_db.rows[j][c] =
                            RankSymbol(CategoryRank(options_evidence.rows[i].result))

\* C8: a database of the inventory with no evidence for an option (by
\* normalised device and database key) still has a row in the Database
\* Rollup, and every such row shows the empty symbol for that option.
C8_OpenWorldAbsence ==
    DbBuilt =>
        \A k \in DOMAIN oracle_dbs.rows : \A c \in OptionColumns :
            LET b == oracle_dbs.rows[k]
                out == {j \in DOMAIN df_db.rows :
                           /\ df_db.rows[j]["device_name"] = b.device_name
                           /\ df_db.rows[j]["database_name"] = b.database_name}
            IN  TripleOf(b, c) = {} =>
                    /\ out # {}
                    /\ \A j \in out : df_db.rows[j][c] = ""

\* a database without any evidence row, next to one with evidence
C8_Witness ==
    /\ DbBuilt
    /\ \E k \in DOMAIN oracle_dbs.rows :
          /\ \A c \in OptionColumns : TripleOf(oracle_dbs.rows[k], c) = {}
          /\ \E j \in DOMAIN df_db.rows :
                /\ df_db.rows[j]["device_name"] = oracle_dbs.rows[k].device_name
                /\ df_db.rows[j]["database_name"] = oracle_dbs.rows[k].database_name
                /\ \A c \in OptionColumns : df_db.rows[j][c] = ""
    /\ \E j \in DOMAIN df_db.rows : \E c \in OptionColumns : df_db.rows[j][c] # ""

\* the rows that compete in the deduplication
Candidates == df_final(oracle_dbs.rows, options_evidence.rows)

SameName(r1, r2) ==
    /\ r1["device_name"] = r2["device_name"]
    /\ r1["database_name"] = r2["database_name"]

\* C9: no two rows of the Database Rollup share (device, database name);
\* every candidate's key survives, and a key with a candidate that carries a
\* non-empty dbid is represented by a row with a non-empty dbid.
C9_Dedup ==
    DbBuilt =>
        LET cand == Candidates
        IN  /\ \A i, j \in DOMAIN df_db.rows :
                  SameName(df_db.rows[i], df_db.rows[j]) => i = j
            /\ \A k \in DOMAIN cand :
                  \E j \in DOMAIN df_db.rows :
                      /\ SameName(cand[k], df_db.rows[j])
                      /\ cand[k]["dbid"] # "" => df_db.rows[j]["dbid"] # ""

\* two candidates collide, the first without a dbid, the second with one
C9_Witness ==
    /\ DbBuilt
    /\ LET cand == Candidates
       IN  \E k1, k2 \in DOMAIN cand :
              /\ k1 < k2
              /\ SameName(cand[k1], cand[k2])
              /\ cand[k1]["dbid"] = ""
              /\ cand[k2]["dbid"] # ""
              /\ \E j \in DOMAIN df_db.rows :
                    /\ SameName(cand[k2], df_db.rows[j])
                    /\ df_db.rows[j]["dbid"] = cand[k2]["dbid"]

\* the VM Rollup rows assigned to physical device d
VmRowsOn(d) ==
    {k \in DOMAIN df_vm.rows : df_vm.rows[k]["physical_device"] = d}

\* the Host Rollup was built from hardware data and the VM Rollup names the
\* physical device of each VM
HostsRolledUp ==
    /\ HostsBuilt
    /\ physical_hosts.tier # "none"
    /\ "physical_device" \in Range(df_vm.cols)

\* C3: for every physical device of the Virtual Device Rollup and every
\* option column, the Host Rollup has a row for the device and its symbol is
\* the maximum-priority symbol among the VMs assigned to the device (the
\* empty symbol when all of them carry the empty symbol).
C3_HostRollupIsMax ==
    HostsRolledUp =>
        \A i \in DOMAIN df_vm.rows : \A c \in OptionColumns :
            LET d == df_vm.rows[i]["physical_device"]
                out == {h \in DOMAIN df_hosts.rows :
                           df_hosts.rows[h]["physical_device"] = d}
            IN  /\ out # {}
                /\ \A h \in out :
                      df_hosts.rows[h][c] =
                          MaxSymbol({df_vm.rows[k][c] : k \in VmRowsOn(d)})

\* two VMs on one host, the first with the weaker symbol: the host shows the
\* stronger one
C3_Witness ==
    /\ HostsRolledUp
    /\ \E i1, i2 \in DOMAIN df_vm.rows : \E c \in OptionColumns :
          /\ i1 < i2
          /\ df_vm.rows[i1]["physical_device"] = df_vm.rows[i2]["physical_device"]
          /\ SymbolRank[df_vm.rows[i1][c]] < SymbolRank[df_vm.rows[i2][c]]
          /\ \E h \in DOMAIN df_hosts.rows :
                /\ df_hosts.rows[h]["physical_device"] = df_vm.rows[i1]["physical_device"]
                /\ df_hosts.rows[h][c] =
                       MaxSymbol({df_vm.rows[k][c] :
                                     k \in VmRowsOn(df_vm.rows[i1]["physical_device"])})

\* the sum of the virtual core counts the inventory reports for the VMs of
\* the VM Rollup that run on physical device d
VirtualCoresOn(d) ==
    LET on == SelectSeq(virtual_devices.rows,
                  LAMBDA r : /\ r["physical_host"] = d
                             /\ \E k \in DOMAIN df_vm.rows :
                                   df_vm.rows[k]["virtual_device"] = r["device_name"])
    IN  SeqSum([i \in DOMAIN on |-> int(on[i]["total_number_of_cores"])])

\* C4: every row of the Host Rollup built from the Virtual Device Rollup
\* carries the sum of the virtual core counts of the VMs assigned to its
\* physical device.
C4_HostSizingIsSum ==
    (HostsRolledUp /\ physical_hosts.tier = "json") =>
        \A h \in DOMAIN df_hosts.rows :
            /\ "number_of_virtual_cores" \in Range(df_hosts.cols)
            /\ df_hosts.rows[h]["number_of_virtual_cores"] =
                   str(VirtualCoresOn(df_hosts.rows[h]["physical_device"]))

\* the Host Rollup rows of cluster n
HostRowsIn(n) ==
    {h \in DOMAIN df_hosts.rows : df_hosts.rows[h]["cluster_name"] = n}

ClustersRolledUp == ClustersBuilt /\ virtual_clusters.present

\* C5: for every cluster of the cluster inventory and every option column of
\* the Host Rollup, the Cluster Rollup has a row for the cluster and its
\* symbol is the maximum-priority symbol among the Host Rollup rows of that
\* cluster, the empty symbol when it has no member host.
C5_ClusterRollupIsMax ==
    ClustersRolledUp =>
        \A q \in DOMAIN virtual_clusters.rows :
            \A c \in OptionColumns \cap Range(df_hosts.cols) :
                LET n == virtual_clusters.rows[q]["device_name"]
                    out == {x \in DOMAIN df_clusters.rows :
                               df_clusters.rows[x]["cluster_name"] = n}
                IN  /\ out # {}
                    /\ \A x \in out :
                          df_clusters.rows[x][c] =
                              MaxSymbol({df_hosts.rows[h][c] : h \in HostRowsIn(n)})

\* two hosts in one cluster, the first with the weaker symbol: the cluster
\* shows the stronger one, and a cluster without member hosts the empty one
C5_Witness ==
    /\ ClustersRolledUp
    /\ \E h1, h2 \in DOMAIN df_hosts.rows : \E c \in OptionColumns :
          /\ h1 < h2
          /\ df_hosts.rows[h1]["cluster_name"] = df_hosts.rows[h2]["cluster_name"]
          /\ SymbolRank[df_hosts.rows[h1][c]] < SymbolRank[df_hosts.rows[h2][c]]
          /\ \E x \in DOMAIN df_clusters.rows :
                /\ df_clusters.rows[x]["cluster_name"] = df_hosts.rows[h1]["cluster_name"]
                /\ df_clusters.rows[x][c] =
                       MaxSymbol({df_hosts.rows[h][c] :
                                     h \in HostRowsIn(df_hosts.rows[h1]["cluster_name"])})
          /\ \E x \in DOMAIN df_clusters.rows :
                /\ HostRowsIn(df_clusters.rows[x]["cluster_name"]) = {}
                /\ df_clusters.rows[x][c] = ""

\* C6: the priority/symbol tables the Host and Cluster roll-ups run with are
\* inverse to each other: priorityOf(symbolOf(p)) = p for p in 0..4 and
\* symbolOf(priorityOf(s)) = s for the five symbols, pairing 0 with "",
\* 1 with "^", 2 with "#", 3 with "~" and 4 with "+".
C6_CodecRoundTrip ==
    HostsBuilt =>
        /\ \A p \in 0..4 :
              /\ sym2prio(prio2sym(p)) = p
              /\ prio2sym(p) = RankSymbol(p)
        /\ \A x \in Symbols :
              /\ prio2sym(sym2prio(x)) = x
              /\ sym2prio(x) = SymbolRank[x]
              /\ dict_get(clusters_SYM2PRIO, x, 0) = SymbolRank[x]

\* the position of a column name in the alphabetical order
ColIndex(c) == CHOOSE k \in DOMAIN ColumnOrder : ColumnOrder[k] = c

\* the fixed identity columns of a Host Rollup without hardware data
HostIdentityColumns ==
    << "cluster_name", "physical_device", "number_of_vms", "operating_system_type",
       "esx_version", "manufacturer", "model", "cpu_model",
       "total_number_of_processors", "cores_per_cpu", "total_number_of_cores",
       "oracle_core_factor" >>

\* cols is the identity columns followed by the columns of vmcols other than
\* the two device keys, in alphabetical order
HeaderOnly(cols, vmcols) ==
    LET n == Len(HostIdentityColumns)
        rest == SubSeq(cols, n + 1, Len(cols))
    IN  /\ Len(cols) >= n
        /\ SubSeq(cols, 1, n) = HostIdentityColumns
        /\ \A i, j \in DOMAIN rest : i < j => ColIndex(rest[i]) < ColIndex(rest[j])
        /\ Range(rest) = Range(vmcols) \ { "virtual_device", "physical_device" }

\* C10: with neither a readable physical-host inventory nor a declared
\* hardware table the Host Rollup does not raise: it returns a table without
\* rows whose header is the fixed identity columns followed by the remaining
\* columns of the VM Rollup (all but virtual_device and physical_device) in
\* alphabetical order.
C10_TierCHeaderOnly ==
    [][(pc = "hosts" /\ physical_hosts.tier = "none") =>
          /\ pc' = "clusters"
          /\ df_hosts'.rows = <<>>
          /\ HeaderOnly(df_hosts'.cols, df_vm.cols)]_vars

\* the stage has run without hardware data over a VM Rollup with rows and
\* option columns
C10_Witness ==
    /\ physical_hosts.tier = "none"
    /\ pc = "clusters"
    /\ df_vm.rows # <<>>
    /\ OptionColumns \subseteq Range(df_hosts.cols)
    /\ df_hosts.rows = <<>>
    /\ HeaderOnly(df_hosts.cols, df_vm.cols)

\* the physical device the declared-hardware table gives VM name v; NaN for
\* a VM it does not list
DeclaredHostOf(v) ==
    LET m == SelectSeq(physical_hosts.declared, LAMBDA d : d["virtual_device"] = v)
    IN  IF m = <<>> THEN NaN ELSE m[1]["physical_device"]

\* C11: with the live physical-host inventory unreadable and a declared
\* hardware table present, the Host Rollup completes for any VM Rollup
\* (one that already has a physical_device column included); every host
\* row is a declared host of some VM, its VM count is the number of VM
\* Rollup rows the declared table assigns to it, and every declared host of
\* a VM of the VM Rollup has a row.
C11_TierBCompletes ==
    [][(pc = "hosts" /\ physical_hosts.tier = "csv") =>
          /\ pc' = "clusters"
          /\ \A h \in DOMAIN df_hosts'.rows :
                LET d == df_hosts'.rows[h]["physical_device"]
                    on == {k \in DOMAIN df_vm.rows :
                              DeclaredHostOf(df_vm.rows[k]["virtual_device"]) = d}
                IN  /\ on # {}
                    /\ df_hosts'.rows[h]["number_of_vms"] = str(Cardinality(on))
          /\ \A k \in DOMAIN df_vm.rows :
                DeclaredHostOf(df_vm.rows[k]["virtual_device"]) # NaN =>
                    \E h \in DOMAIN df_hosts'.rows :
                        df_hosts'.rows[h]["physical_device"] =
                            DeclaredHostOf(df_vm.rows[k]["virtual_device"])]_vars

\* C12: every row of a Host Rollup with rows carries a data-source tag; it
\* is "declared" when the hardware rows come from the declared-hardware
\* table and "discovered" when they come from the live host inventory.
C12_Provenance ==
    (HostsBuilt /\ df_hosts.rows # <<>>) =>
        \A h \in DOMAIN df_hosts.rows :
            /\ "data_source" \in Range(df_hosts.cols)
            /\ df_hosts.rows[h]["data_source"] =
                   (IF physical_hosts.tier = "csv" THEN "declared" ELSE "discovered")

\* a host record of virtualization type VMware, whatever the letter case
HostIsVmware(r) == str_lower(r["virtualization_type"]) \in { "vmware" }

\* the payload of record r parses to a mapping that has key k
PayloadHas(r, k) == r["raw_data"].kind = "dict" /\ k \in DOMAIN r["raw_data"].j

\* a count of the inventory that is at most 1
LowCount(v) == isdigit(v) /\ int(v) <= 1

\* the Host Rollup rows of the host of inventory record r
HostRowsOf(r) ==
    {h \in DOMAIN df_hosts.rows : df_hosts.rows[h]["physical_device"] = r["device_name"]}

\* C13: for a VMware host record (any letter case) whose payload parses
\* and reports "# CPU" = n and "# Cores" = m, the first correction turns a
\* processor count of at most 1 into n, a core count of at most 1 into m and
\* a thread count of at most 1 into 2*m; the Host Rollup shows the corrected
\* processor and core counts.
C13_UnderReportCorrection ==
    \A i \in DOMAIN physical_hosts.rows :
        LET r == physical_hosts.rows[i]
            f == fix_vmware_row(r)
            j == r["raw_data"].j
        IN  (HostIsVmware(r) /\ PayloadHas(r, "# CPU") /\ PayloadHas(r, "# Cores")) =>
                /\ LowCount(r["total_number_of_processors"]) =>
                      /\ f["total_number_of_processors"] = j["# CPU"]
                      /\ \A h \in HostRowsOf(r) :
                            df_hosts.rows[h]["total_number_of_processors"] = j["# CPU"]
                /\ LowCount(r["total_number_of_cores"]) =>
                      /\ f["total_number_of_cores"] = j["# Cores"]
                      /\ \A h \in HostRowsOf(r) :
                            df_hosts.rows[h]["total_number_of_cores"] = j["# Cores"]
                /\ LowCount(r["total_number_of_threads"]) =>
                      f["total_number_of_threads"] = str(2 * int(j["# Cores"]))

\* a VMware record written "VMWare" with all three counts at 1 and a payload
\* reporting 4 CPUs and 8 cores has gone through the Host Rollup
C13_Witness ==
    /\ HostsBuilt
    /\ \E i \in DOMAIN physical_hosts.rows :
          LET r == physical_hosts.rows[i]
          IN  /\ r["virtualization_type"] = "VMWare"
              /\ PayloadHas(r, "# CPU") /\ PayloadHas(r, "# Cores")
              /\ r["total_number_of_processors"] = "1"
              /\ r["total_number_of_cores"] = "1"
              /\ r["total_number_of_threads"] = "1"
              /\ fix_vmware_row(r)["total_number_of_threads"] = "16"
              /\ \E h \in HostRowsOf(r) :
                    /\ df_hosts.rows[h]["total_number_of_processors"] = "4"
                    /\ df_hosts.rows[h]["total_number_of_cores"] = "8"

\* the fixed identity columns of a Cluster Rollup without cluster inventory
ClusterIdentityColumns ==
    << "visdk_server", "cluster_name", "instance_uuid", "number_of_hosts",
       "admission_control_enabled", "num_vmotions", "ha_enabled", "drs_enabled",
       "overall_status", "total_number_of_processors", "total_number_of_cores" >>

\* how often name c occurs in header cols
Occurrences(cols, c) == Cardinality({i \in DOMAIN cols : cols[i] = c})

\* cols is the cluster identity columns followed by the columns of hostcols
\* that are no identity column, in alphabetical order
ClusterHeaderOnly(cols, hostcols) ==
    LET n == Len(ClusterIdentityColumns)
        rest == SubSeq(cols, n + 1, Len(cols))
    IN  /\ Len(cols) >= n
        /\ SubSeq(cols, 1, n) = ClusterIdentityColumns
        /\ \A i, j \in DOMAIN rest : i < j => ColIndex(rest[i]) <= ColIndex(rest[j])
        /\ \A c \in Range(hostcols) \cup Range(rest) :
              Occurrences(rest, c) =
                  (IF c \in Range(ClusterIdentityColumns) THEN 0
                   ELSE Occurrences(hostcols, c))

\* C14: when the cluster inventory cannot be read the Cluster Rollup does
\* not raise, whatever the Host Rollup (the header-only table of tier (c)
\* included): it returns a table without rows whose header is the fixed
\* cluster identity columns followed by the remaining Host Rollup columns in
\* alphabetical order.
C14_ClusterDegradation ==
    [][(pc = "clusters" /\ ~virtual_clusters.present) =>
          /\ pc' = "save"
          /\ df_clusters'.rows = <<>>
          /\ ClusterHeaderOnly(df_clusters'.cols, df_hosts.cols)]_vars

\* the stage has run without cluster inventory over the header-only Host
\* Rollup of tier (c)
C14_Witness ==
    /\ pc = "save"
    /\ ~virtual_clusters.present
    /\ physical_hosts.tier = "none"
    /\ df_hosts.rows = <<>>
    /\ df_clusters.rows = <<>>
    /\ ClusterHeaderOnly(df_clusters.cols, df_hosts.cols)
    /\ OptionColumns \subseteq Range(df_clusters.cols)

\* the order of the stages of a run
StageOrder ==
    { << "evidence", "db" >>, << "db", "vm" >>, << "vm", "hosts" >>,
      << "hosts", "clusters" >>, << "clusters", "save" >>, << "save", "done" >> }

PayloadMaps(r, k) ==
    r["raw_data"].kind \in { "dict", "pydict" } /\ k \in DOMAIN r["raw_data"].j

\* C16: for every VMware host record, the processor count (resp. core
\* count) of its Host Rollup row is the payload's "# CPU" (resp. "# Cores")
\* when the payload has the key, whatever the inventory value and whatever
\* the first correction wrote; when the payload lacks the key, is absent or
\* does not parse, it is the value the first correction left.
C16_LastWriterWins ==
    HostsBuilt =>
        \A i \in DOMAIN physical_hosts.rows :
            LET r == physical_hosts.rows[i]
                f == fix_vmware_row(r)
                j == r["raw_data"].j
            IN  HostIsVmware(r) =>
                    \A h \in HostRowsOf(r) :
                        /\ df_hosts.rows[h]["total_number_of_processors"] =
                              (IF PayloadMaps(r, "# CPU") THEN j["# CPU"]
                               ELSE f["total_number_of_processors"])
                        /\ df_hosts.rows[h]["total_number_of_cores"] =
                              (IF PayloadMaps(r, "# Cores") THEN j["# Cores"]
                               ELSE f["total_number_of_cores"])

\* a VMware record with 2 processors and 4 cores, which the first correction
\* leaves alone, and a payload reporting 4 CPUs and 8 cores shows 4 and 8 in
\* the Host Rollup
C16_Witness ==
    /\ HostsBuilt
    /\ \E i \in DOMAIN physical_hosts.rows :
          LET r == physical_hosts.rows[i]
          IN  /\ HostIsVmware(r)
              /\ PayloadMaps(r, "# CPU") /\ PayloadMaps(r, "# Cores")
              /\ r["total_number_of_processors"] = "2"
              /\ r["total_number_of_cores"] = "4"
              /\ \E h \in HostRowsOf(r) :
                    /\ df_hosts.rows[h]["total_number_of_processors"] = "4"
                    /\ df_hosts.rows[h]["total_number_of_cores"] = "8"

\* the columns of a host record the two corrections may write
CorrectedColumns ==
    { "total_number_of_processors", "total_number_of_cores",
      "total_number_of_threads", "cores_per_cpu", "esx_version", "manufacturer" }

\* the columns the first correction backfills
BackfilledColumns == { "cores_per_cpu", "esx_version", "manufacturer" }

\* C17: both corrections leave the processor, core and thread counts,
\* cores-per-CPU, hypervisor version and manufacturer of a host record that
\* is not VMware unchanged, payload or not; for a VMware record,
\* cores-per-CPU, hypervisor version and manufacturer are taken from the
\* payload only when the record's own value is missing: a populated value is
\* the one the corrected record and the Host Rollup show.
C17_CorrectionFrame ==
    HostsBuilt =>
        \A i \in DOMAIN physical_hosts.rows :
            LET r == physical_hosts.rows[i]
                f == override_vmware_sizing(fix_vmware_row(r))
            IN  /\ ~HostIsVmware(r) => \A c \in CorrectedColumns : f[c] = r[c]
                /\ \A c \in BackfilledColumns :
                      r[c] # NaN =>
                          /\ f[c] = r[c]
                          /\ \A h \in HostRowsOf(r) : df_hosts.rows[h][c] = r[c]

\* the backfill attributes the Virtual Device table shows
ShownBackfill == Range(wanted) \ vm_drop

\* the Virtual Device rows of the VM of inventory record r
VmRowsOf(r) ==
    {v \in DOMAIN df_vm.rows : df_vm.rows[v]["virtual_device"] = r["device_name"]}

\* record r has an explicit value for attribute k: the cell is there and is
\* neither null nor empty
Explicit(r, k) == k \in DOMAIN r /\ r[k] \notin { "", NaN, None }

\* C18: when the Virtual Device stage has run, for every VM record and every
\* backfill attribute the table shows, (1) an explicit value of the record is
\* kept, whatever the payload says; (2) an absent, null or empty field takes
\* the payload's value when the payload is a mapping with that key; (3) with
\* a payload that is absent, cannot be read or is not a mapping, the field is
\* as in the record, an absent one empty.
C18_VmBackfill ==
    (VmBuilt /\ pc = "hosts") =>
        \A i \in DOMAIN virtual_devices.rows :
            LET r == virtual_devices.rows[i]
                raw == r["raw_data"]
            IN  \A v \in VmRowsOf(r) : \A k \in ShownBackfill :
                    /\ Explicit(r, k) => df_vm.rows[v][k] = r[k]
                    /\ (~Explicit(r, k) /\ raw.kind = "dict" /\ k \in DOMAIN raw.j) =>
                          df_vm.rows[v][k] = raw.j[k]
                    /\ raw.kind # "dict" =>
                          df_vm.rows[v][k] = (IF k \in DOMAIN r THEN fillna(r[k]) ELSE "")

\* the Cluster Rollup rows of the cluster of inventory record q
ClusterRowsOf(q) ==
    {x \in DOMAIN df_clusters.rows :
        df_clusters.rows[x]["cluster_name"] = q["device_name"]}

\* C19: for every cluster record, a host count already populated in the
\* record - an explicit 0 included - is the one the Cluster Rollup shows: it
\* is neither replaced by the payload's "NumHosts" nor blanked.
C19_ClusterBackfill ==
    ClustersRolledUp =>
        \A i \in DOMAIN virtual_clusters.rows :
            LET q == virtual_clusters.rows[i]
            IN  q["number_of_cluster_members"] \notin { "", NaN, None } =>
                    \A x \in ClusterRowsOf(q) :
                        df_clusters.rows[x]["number_of_hosts"] =
                            q["number_of_cluster_members"]

====
